---------------------------- MODULE Spec2Model ----------------------------
(***************************************************************************)
(* A model of the session retrieval, caching and aggregation code of the   *)
(* F1 dashboard: the memoized loaders of utils/data.py and utils/season.py,*)
(* the worker-pool fetches of utils/circuit.py, utils/driver.py and        *)
(* utils/season.py, and the aggregations built on the loaded sessions.     *)
(*                                                                         *)
(* SpecLoaders and SpecMemo call the memoized entry points one after the   *)
(* other, the latter while the provider and the services go down and come  *)
(* back.                                                                   *)
(*                                                                         *)
(* Each component has its own specification (SpecFetch, SpecLRU, ...): it  *)
(* moves that component's variables and leaves the others at their initial *)
(* values.                                                                 *)
(***************************************************************************)
EXTENDS Integers, Sequences, FiniteSets, TLC

VARIABLES
    cache,      \* load_session's lru_cache: <<[key, val]>>, least recently used first
    calls,      \* provider calls (fastf1.get_session + load) started, per session key
    nextId,     \* identity given to the next Session object the provider creates
    thr,        \* the callers of load_session: 0 is a direct caller, 1.. the pool's tasks
    fn,         \* the batch function running the pool
    keys,       \* the batch's input: the session key of each task, in input order
    main,       \* where the batch function is
    nxt,        \* the future pool.map's result iterator waits for next
    sessions,   \* list(pool.map(...)) as collected so far
    completed,  \* the tasks in the order their futures completed
    firstCache, \* load_first_session's lru_cache, least recently used first
    getCache,   \* get_session's lru_cache, least recently used first
    contacts,   \* the requests made to the provider and the services so far
    last,       \* the last call of a memoized loader made by a sequential caller
    used,       \* when each session key's entry was last used (stored or hit)
    clock,      \* counts the uses of load_session's cache
    ncalls,     \* the calls the sequential caller has made
    laps,       \* stint_chart: session.laps of the race, a set of lap rows
    stint_ranges, \* stint_chart: the range table the chart is drawn from
    stintPc,    \* stint_chart: "input", "done" or "raised"
    season,     \* team_points_chart: per event of the schedule, what its load gives
    team_points, \* team_points_chart: the running totals
    pointsPc,   \* team_points_chart: "input", "done", "empty" or "raised"
    raceLaps,   \* lap_time_chart: per selected race, what its load gives
    driver,     \* lap_time_chart: the driver asked for
    df,         \* lap_time_chart: the concatenated frame the line chart is drawn from
    chartPc,    \* lap_time_chart: "input", "done", "empty" or "raised"
    metaIn,     \* driver_metadata: the arguments and what each source answers
    profile,    \* driver_metadata: the returned dictionary
    metaPc,     \* driver_metadata: "idle", "done" or "raised"
    teleIn,     \* compare_fastest_lap_telemetry: the arguments and the session's laps
    figs,       \* compare_fastest_lap_telemetry: the traces of the three figures
    telePc,     \* compare_fastest_lap_telemetry: "idle", "done" or "raised"
    pointsCache, \* team_points_chart's lru_cache, least recently used first
    metaCache,  \* driver_metadata's lru_cache, least recently used first
    up          \* which of the provider and the services can be reached

cacheVars == <<cache, calls, nextId>>

poolVars == <<thr, fn, keys, main, nxt, sessions, completed>>

seqVars == <<firstCache, getCache, contacts, last, used, clock, ncalls>>

stintVars == <<laps, stint_ranges, stintPc>>

pointsVars == <<season, team_points, pointsPc>>

lapVars == <<raceLaps, driver, df, chartPc>>

metaVars == <<metaIn, profile, metaPc>>

teleVars == <<teleIn, figs, telePc>>

memoVars == <<pointsCache, metaCache, up>>

restOfFetch ==
    <<seqVars, stintVars, pointsVars, lapVars, metaVars, teleVars, memoVars>>

restOfSeq ==
    <<poolVars, stintVars, pointsVars, lapVars, metaVars, teleVars, memoVars>>

restOfStint ==
    <<cacheVars, poolVars, seqVars, pointsVars, lapVars, metaVars, teleVars, memoVars>>

restOfPoints ==
    <<cacheVars, poolVars, seqVars, stintVars, lapVars, metaVars, teleVars, memoVars>>

restOfLaps ==
    <<cacheVars, poolVars, seqVars, stintVars, pointsVars, metaVars, teleVars, memoVars>>

restOfMeta ==
    <<cacheVars, poolVars, seqVars, stintVars, pointsVars, lapVars, teleVars, memoVars>>

restOfTele ==
    <<cacheVars, poolVars, seqVars, stintVars, pointsVars, lapVars, metaVars, memoVars>>

vars ==
    <<cacheVars, poolVars, seqVars, stintVars, pointsVars, lapVars, metaVars, teleVars, memoVars>>

-----------------------------------------------------------------------------
(* Bounds of the model *)

\* the most tasks one batch submits to the pool
MaxBatch == 2

\* the most calls a sequential caller makes
MaxCalls == 3

\* the most laps the race session of stint_chart holds
MaxLaps == 3

\* the most events a season's schedule holds
MaxEvents == 2

\* the most races lap_time_chart is asked for
MaxRaces == 2

\* the most calls made on the full cache
MaxFree == 2

\* the most calls made of the entry points that pass over failures
MaxMemoCalls == 2

\* the distinct session keys a sequential caller has beyond the cache's capacity
ExtraKeys == 2

\* the session keys (year, event, session type) the callers ask for; an event is
\* named by its place in the season's schedule
SessionKeys == {<<2023, 1, "R">>, <<2023, 2, "R">>}

\* the seasons and session types load_first_session is called with
Years == {2023, 2024}

SessionTypes == {"R"}

-----------------------------------------------------------------------------
(* functools.lru_cache(maxsize=32), as applied to load_session *)

maxsize == 32

\* Python's None, and a Session object: the provider makes a new object per call
None == [key |-> <<0, 0, "None">>, id |-> 0]

Session(k, n) == [key |-> k, id |-> n]

CacheKeys(c) == {c[i].key : i \in DOMAIN c}

CacheGet(c, k) == c[CHOOSE i \in DOMAIN c : c[i].key = k].val

\* a hit moves the entry to the most-recently-used end
CacheTouch(c, k) ==
    LET i == CHOOSE j \in DOMAIN c : c[j].key = k
    IN  Append(SubSeq(c, 1, i - 1) \o SubSeq(c, i + 1, Len(c)), c[i])

\* a full cache that drops its newest entry instead
CachePutDropNewest(c, k, v) ==
    IF Len(c) >= maxsize
    THEN Append(SubSeq(c, 1, Len(c) - 1), [key |-> k, val |-> v])
    ELSE Append(c, [key |-> k, val |-> v])

\* a new entry goes to the most-recently-used end; a full cache drops its oldest
CachePut(c, k, v) ==
    IF Len(c) >= maxsize
    THEN Append(Tail(c), [key |-> k, val |-> v])
    ELSE Append(c, [key |-> k, val |-> v])

\* a wrapper that does not store a None
CacheStoreUnlessNone(c, k, v) ==
    IF k \in CacheKeys(c) \/ v = None THEN c ELSE CachePut(c, k, v)

\* the wrapper after the wrapped function has returned v: it stores v unless the
\* key was added while the function ran
CacheStore(c, k, v) == IF k \in CacheKeys(c) THEN c ELSE CachePut(c, k, v)

-----------------------------------------------------------------------------
(* The worker-pool fetches: lap_time_boxplot, lap_time_chart, team_points_chart *)

BatchFns == {"lap_time_boxplot", "lap_time_chart", "team_points_chart"}

\* what a failing provider call raises: a provider error or a network error
ErrKinds == {"FastF1Error", "RequestException"}

\* except (fastf1.FastF1Error, requests.RequestException) in lap_time_boxplot's _load
Caught == {"FastF1Error", "RequestException"}

Tasks == 1 .. Len(keys)

Unused == [pc |-> "unused", key |-> None.key, ret |-> None, err |-> "none"]

NoCall == [fn |-> "none", key |-> <<>>, hit |-> FALSE, failed |-> FALSE,
           raised |-> FALSE, ret |-> None]

InitCache(universe) ==
    /\ cache = <<>>
    /\ calls = [k \in universe |-> 0]
    /\ nextId = 1

InitSeq(universe) ==
    /\ firstCache = <<>>
    /\ getCache = <<>>
    /\ contacts = 0
    /\ last = NoCall
    /\ used = [k \in universe |-> 0]
    /\ clock = 0
    /\ ncalls = 0

InitPool ==
    /\ thr = [t \in 0 .. MaxBatch |-> Unused]
    /\ fn = "none"
    /\ keys = <<>>
    /\ main = "idle"
    /\ nxt = 1
    /\ sessions = <<>>
    /\ completed = <<>>

InitStint ==
    /\ laps = {}
    /\ stint_ranges = {}
    /\ stintPc = "input"

InitPoints ==
    /\ season = <<>>
    /\ team_points = <<>>
    /\ pointsPc = "input"

InitLaps ==
    /\ raceLaps = <<>>
    /\ driver = "none"
    /\ df = <<>>
    /\ chartPc = "input"

InitMeta ==
    /\ metaIn = <<>>
    /\ profile = <<>>
    /\ metaPc = "idle"

InitTele ==
    /\ teleIn = <<>>
    /\ figs = <<>>
    /\ telePc = "idle"

\* what the entry points make requests to: the provider (schedule and sessions),
\* the metadata service and the image service
Sources == {"provider", "ergast", "wiki"}

InitMemo ==
    /\ pointsCache = <<>>
    /\ metaCache = <<>>
    /\ up = Sources

InitAggregators == InitStint /\ InitPoints /\ InitLaps /\ InitMeta /\ InitTele /\ InitMemo

InitFetch == InitCache(SessionKeys) /\ InitPool /\ InitSeq(SessionKeys) /\ InitAggregators

\* zip(races, sessions), zip(years, sessions): each input paired with a result
Zip == [i \in 1 .. Len(sessions) |-> <<keys[i], sessions[i]>>]

\* with ThreadPoolExecutor() as pool: pool.map(f, keys) submits every task at once
Submit(f, ks) ==
    /\ main = "idle"
    /\ fn' = f
    /\ keys' = ks
    /\ thr' = [t \in 0 .. MaxBatch |->
                 IF t \in 1 .. Len(ks)
                 THEN [pc |-> "pending", key |-> ks[t], ret |-> None, err |-> "none"]
                 ELSE thr[t]]
    /\ main' = "collect"
    /\ nxt' = 1
    /\ sessions' = <<>>
    /\ UNCHANGED <<restOfFetch, cache, calls, nextId, completed>>

\* a caller outside the pool (race_summary, driver_metadata) calls load_session
DirectCall(k) ==
    /\ thr[0].pc = "unused"
    /\ thr' = [thr EXCEPT ![0] = [pc |-> "pending", key |-> k, ret |-> None, err |-> "none"]]
    /\ UNCHANGED <<restOfFetch, cache, calls, nextId, fn, keys, main, nxt, sessions, completed>>

\* the caller enters the lru_cache wrapper: a hit returns the stored object
Hit(t) ==
    /\ thr[t].pc = "pending"
    /\ thr[t].key \in CacheKeys(cache)
    /\ thr' = [thr EXCEPT ![t].pc = "done", ![t].ret = CacheGet(cache, thr[t].key)]
    /\ cache' = CacheTouch(cache, thr[t].key)
    /\ completed' = IF t >= 1 THEN Append(completed, t) ELSE completed
    /\ UNCHANGED <<restOfFetch, calls, nextId, fn, keys, main, nxt, sessions>>

\* a miss calls the wrapped function, which starts the provider call
Miss(t) ==
    /\ thr[t].pc = "pending"
    /\ thr[t].key \notin CacheKeys(cache)
    /\ thr' = [thr EXCEPT ![t].pc = "calling"]
    /\ calls' = [calls EXCEPT ![thr[t].key] = @ + 1]
    /\ UNCHANGED <<restOfFetch, cache, nextId, fn, keys, main, nxt, sessions, completed>>

\* sess.load() returns: the wrapper stores the new Session and returns it
ProviderReturn(t) ==
    /\ thr[t].pc = "calling"
    /\ LET sess == Session(thr[t].key, nextId)
       IN  /\ cache' = CacheStore(cache, thr[t].key, sess)
           /\ thr' = [thr EXCEPT ![t].pc = "done", ![t].ret = sess]
    /\ nextId' = nextId + 1
    /\ completed' = IF t >= 1 THEN Append(completed, t) ELSE completed
    /\ UNCHANGED <<restOfFetch, calls, fn, keys, main, nxt, sessions>>

\* the try/except of lap_time_boxplot's _load; the other two map a bare lambda
Catches(f, t, e) == f = "lap_time_boxplot" /\ t >= 1 /\ e \in Caught

\* the provider call raises: nothing is stored
ProviderRaise(t, e) ==
    /\ thr[t].pc = "calling"
    /\ thr' = IF Catches(fn, t, e)
              THEN [thr EXCEPT ![t].pc = "done", ![t].ret = None, ![t].err = e]
              ELSE [thr EXCEPT ![t].pc = "failed", ![t].err = e]
    /\ completed' = IF t >= 1 THEN Append(completed, t) ELSE completed
    /\ UNCHANGED <<restOfFetch, cache, calls, nextId, fn, keys, main, nxt, sessions>>

\* the results in the order the futures complete, as an as_completed loop would give
YieldsAsCompleted(n, order) == IF n <= Len(order) THEN order[n] ELSE 0

\* the task whose result the iterator of pool.map yields n-th: the futures are
\* kept, and waited for, in the order of the input, whatever order they complete in
Yields(n, order) == n

\* list(pool.map(...)): the iterator yields the futures' results
Collect ==
    /\ main = "collect"
    /\ nxt <= Len(keys)
    /\ Yields(nxt, completed) \in Tasks
    /\ thr[Yields(nxt, completed)].pc = "done"
    /\ sessions' = Append(sessions, thr[Yields(nxt, completed)].ret)
    /\ nxt' = nxt + 1
    /\ main' = IF nxt = Len(keys) THEN "done" ELSE "collect"
    /\ UNCHANGED <<restOfFetch, cache, calls, nextId, thr, fn, keys, completed>>

\* the future the iterator waits for raised: result() re-raises, the iterator's
\* finally cancels the futures that have not started
CollectRaise ==
    /\ main = "collect"
    /\ nxt <= Len(keys)
    /\ Yields(nxt, completed) \in Tasks
    /\ thr[Yields(nxt, completed)].pc = "failed"
    /\ thr' = [t \in 0 .. MaxBatch |->
                 IF t \in Tasks /\ thr[t].pc = "pending"
                 THEN [thr[t] EXCEPT !.pc = "cancelled"]
                 ELSE thr[t]]
    /\ main' = "raising"
    /\ UNCHANGED <<restOfFetch, cache, calls, nextId, fn, keys, nxt, sessions, completed>>

\* the with block's exit waits for the running tasks, then the exception leaves
\* the batch function
Propagate ==
    /\ main = "raising"
    /\ \A t \in Tasks : thr[t].pc # "calling"
    /\ main' = "raised"
    /\ UNCHANGED <<restOfFetch, cache, calls, nextId, thr, fn, keys, nxt, sessions, completed>>

NextFetch ==
    \/ \E f \in BatchFns, n \in 1 .. MaxBatch : \E ks \in [1 .. n -> SessionKeys] : Submit(f, ks)
    \/ \E k \in SessionKeys : DirectCall(k)
    \/ \E t \in 0 .. MaxBatch : Hit(t)
    \/ \E t \in 0 .. MaxBatch : Miss(t)
    \/ \E t \in 0 .. MaxBatch : ProviderReturn(t)
    \/ \E t \in 0 .. MaxBatch, e \in ErrKinds : ProviderRaise(t, e)
    \/ Collect
    \/ CollectRaise
    \/ Propagate

SpecFetch == InitFetch /\ [][NextFetch]_vars

\* the callers that hold a Session for key k
Holders(k) == {t \in 0 .. MaxBatch : thr[t].pc = "done" /\ thr[t].key = k /\ thr[t].ret # None}

\* C1: single-flight. Concurrent callers of load_session with one uncached key
\* cause one provider call for it (never two in flight at once), and all of
\* them receive the same Session object.
C1_SingleFlight ==
    \A k \in SessionKeys :
        /\ Cardinality({t \in 0 .. MaxBatch : thr[t].pc = "calling" /\ thr[t].key = k}) <= 1
        /\ \A a, b \in Holders(k) : thr[a].ret = thr[b].ret

\* C2: partial-failure tolerance. In each of the three batch functions a failed
\* provider call leaves None at its position, the other fetches still run and
\* deliver their sessions, and the batch call does not raise.
C2_PartialFailureTolerated ==
    /\ main \notin {"raising", "raised"}
    /\ \A t \in Tasks : thr[t].pc # "cancelled"
    /\ main = "done" =>
          \A i \in Tasks :
              /\ thr[i].err # "none" => sessions[i] = None
              /\ thr[i].err = "none" => sessions[i] # None /\ sessions[i] = thr[i].ret

\* C4: order preservation. Whatever order the tasks complete in, the i-th result
\* is what the load of the i-th input key returned, so zip pairs each Session
\* with the key it was loaded for.
C4_OrderPreserved ==
    \A i \in DOMAIN Zip :
        /\ Zip[i][2] = thr[i].ret
        /\ Zip[i][2] # None => Zip[i][2].key = Zip[i][1]
        /\ Zip[i][2] = None => thr[i].err # "none"

\* a batch over two different keys whose second task completed first
C4_Witness ==
    /\ main = "done"
    /\ Len(keys) >= 2
    /\ keys[1] # keys[2]
    /\ completed[1] = 2
    /\ sessions[1] # None
    /\ sessions[2] # None

-----------------------------------------------------------------------------
(* The memoized loaders, called one call after the other *)

\* what the provider does when it is called: it returns, or raises
Outcomes == {"ok"} \cup ErrKinds

\* load_session(year, grand_prix, session) under lru_cache: a hit returns the
\* stored Session; a miss calls the provider, and stores what it returns
LoadSession(k, o) ==
    /\ IF k \in CacheKeys(cache)
       THEN /\ cache' = CacheTouch(cache, k)
            /\ last' = [fn |-> "load_session", key |-> k, hit |-> TRUE, failed |-> FALSE,
                         raised |-> FALSE, ret |-> CacheGet(cache, k)]
            /\ clock' = clock + 1
            /\ used' = [used EXCEPT ![k] = clock + 1]
            /\ UNCHANGED <<calls, nextId, contacts>>
       ELSE /\ calls' = [calls EXCEPT ![k] = @ + 1]
            /\ contacts' = contacts + 1
            /\ IF o = "ok"
               THEN /\ cache' = CacheStore(cache, k, Session(k, nextId))
                    /\ last' = [fn |-> "load_session", key |-> k, hit |-> FALSE,
                                 failed |-> FALSE, raised |-> FALSE,
                                 ret |-> Session(k, nextId)]
                    /\ nextId' = nextId + 1
                    /\ clock' = clock + 1
                    /\ used' = [used EXCEPT ![k] = clock + 1]
               ELSE /\ last' = [fn |-> "load_session", key |-> k, hit |-> FALSE,
                                 failed |-> TRUE, raised |-> TRUE, ret |-> None]
                    /\ UNCHANGED <<cache, nextId, clock, used>>
    /\ UNCHANGED <<firstCache, getCache, restOfSeq>>

\* get_session(year, grand_prix, session) under lru_cache: a hit returns the stored
\* Session; a miss has the provider make a Session, which is not loaded
GetSession(k, o) ==
    /\ IF k \in CacheKeys(getCache)
       THEN /\ getCache' = CacheTouch(getCache, k)
            /\ last' = [fn |-> "get_session", key |-> k, hit |-> TRUE, failed |-> FALSE,
                         raised |-> FALSE, ret |-> CacheGet(getCache, k)]
            /\ UNCHANGED <<nextId, contacts>>
       ELSE /\ contacts' = contacts + 1
            /\ IF o = "ok"
               THEN /\ getCache' = CacheStore(getCache, k, Session(k, nextId))
                    /\ last' = [fn |-> "get_session", key |-> k, hit |-> FALSE,
                                 failed |-> FALSE, raised |-> FALSE,
                                 ret |-> Session(k, nextId)]
                    /\ nextId' = nextId + 1
               ELSE /\ last' = [fn |-> "get_session", key |-> k, hit |-> FALSE,
                                 failed |-> TRUE, raised |-> TRUE, ret |-> None]
                    /\ UNCHANGED <<getCache, nextId>>
    /\ UNCHANGED <<cache, calls, firstCache, used, clock, restOfSeq>>

\* schedule.iloc[0]["EventName"]: the season's first event
FirstKey(y, s) == <<y, 1, s>>

\* what fastf1.get_event_schedule does: it returns a schedule, returns an empty
\* one, or raises
ScheduleOutcomes == {"ok", "empty", "error"}

\* load_first_session(year, session) under lru_cache. A schedule error is caught
\* and None returned; what the function returns, the wrapper stores
LoadFirstSession(y, s, sched, o) ==
    /\ IF <<y, s>> \in CacheKeys(firstCache)
       THEN /\ firstCache' = CacheTouch(firstCache, <<y, s>>)
            /\ last' = [fn |-> "load_first_session", key |-> <<y, s>>, hit |-> TRUE,
                         failed |-> FALSE, raised |-> FALSE,
                         ret |-> CacheGet(firstCache, <<y, s>>)]
            /\ UNCHANGED <<calls, nextId, contacts>>
       ELSE CASE sched = "error" ->
                   /\ firstCache' = CacheStore(firstCache, <<y, s>>, None)
                   /\ last' = [fn |-> "load_first_session", key |-> <<y, s>>, hit |-> FALSE,
                                failed |-> TRUE, raised |-> FALSE, ret |-> None]
                   /\ contacts' = contacts + 1
                   /\ UNCHANGED <<calls, nextId>>
              [] sched = "empty" ->
                   /\ last' = [fn |-> "load_first_session", key |-> <<y, s>>, hit |-> FALSE,
                                failed |-> FALSE, raised |-> TRUE, ret |-> None]
                   /\ contacts' = contacts + 1
                   /\ UNCHANGED <<firstCache, calls, nextId>>
              [] sched = "ok" /\ o = "ok" ->
                   /\ firstCache' = CacheStore(firstCache, <<y, s>>,
                                                Session(FirstKey(y, s), nextId))
                   /\ last' = [fn |-> "load_first_session", key |-> <<y, s>>, hit |-> FALSE,
                                failed |-> FALSE, raised |-> FALSE,
                                ret |-> Session(FirstKey(y, s), nextId)]
                   /\ calls' = [calls EXCEPT ![FirstKey(y, s)] = @ + 1]
                   /\ contacts' = contacts + 2
                   /\ nextId' = nextId + 1
              [] sched = "ok" /\ o # "ok" ->
                   /\ last' = [fn |-> "load_first_session", key |-> <<y, s>>, hit |-> FALSE,
                                failed |-> TRUE, raised |-> TRUE, ret |-> None]
                   /\ calls' = [calls EXCEPT ![FirstKey(y, s)] = @ + 1]
                   /\ contacts' = contacts + 2
                   /\ UNCHANGED <<firstCache, nextId>>
    /\ UNCHANGED <<cache, getCache, used, clock, restOfSeq>>

LoaderKeys == SessionKeys \cup {FirstKey(y, s) : y \in Years, s \in SessionTypes}

InitLoaders == InitCache(LoaderKeys) /\ InitPool /\ InitSeq(LoaderKeys) /\ InitAggregators

CallLoadSession(k, o) ==
    /\ ncalls < MaxCalls
    /\ ncalls' = ncalls + 1
    /\ LoadSession(k, o)

CallLoadFirstSession(y, s, sched, o) ==
    /\ ncalls < MaxCalls
    /\ ncalls' = ncalls + 1
    /\ LoadFirstSession(y, s, sched, o)

CallGetSession(k, o) ==
    /\ ncalls < MaxCalls
    /\ ncalls' = ncalls + 1
    /\ GetSession(k, o)

NextLoaders ==
    \/ \E k \in SessionKeys, o \in Outcomes : CallLoadSession(k, o)
    \/ \E k \in SessionKeys, o \in Outcomes : CallGetSession(k, o)
    \/ \E y \in Years, s \in SessionTypes, sched \in ScheduleOutcomes, o \in Outcomes :
          CallLoadFirstSession(y, s, sched, o)

SpecLoaders == InitLoaders /\ [][NextLoaders]_vars

\* the cache of the loader the last call went to
CacheOf(f) ==
    IF f = "load_first_session" THEN firstCache
    ELSE IF f = "get_session" THEN getCache ELSE cache

\* C3: a failed load never populates the cache. When the provider call made for
\* a cached loader fails, the caller sees the failure and no entry is stored for
\* the key, so the next call with the key contacts the provider again.
C3_FailedLoadNotCached ==
    last.failed => last.raised /\ last.key \notin CacheKeys(CacheOf(last.fn))

\* the Session objects the loaders' caches hold
CachedSessions ==
    ({cache[i].val : i \in DOMAIN cache}
        \cup {getCache[i].val : i \in DOMAIN getCache}
        \cup {firstCache[i].val : i \in DOMAIN firstCache}) \ {None}

\* C12: the cached session of a key is unique. In every reachable state, over the
\* caches of get_session, load_session and load_first_session together, a session
\* key (year, event, session type) has at most one cached Session object.
C12_OneSessionPerKey ==
    \A a, b \in CachedSessions : a.key = b.key => a = b

-----------------------------------------------------------------------------
(* load_session's cache at its capacity *)

LruKey(n) == <<2023, n, "R">>

LruKeys == {LruKey(n) : n \in 1 .. maxsize + ExtraKeys}

InitLRU == InitCache(LruKeys) /\ InitPool /\ InitSeq(LruKeys) /\ InitAggregators

\* the caller first loads maxsize different sessions, one after the other
FillCall ==
    /\ Len(cache) < maxsize
    /\ LoadSession(LruKey(Len(cache) + 1), "ok")
    /\ UNCHANGED ncalls

\* then it calls load_session with any key, cached or not
FreeCall(k, o) ==
    /\ Len(cache) = maxsize
    /\ ncalls < MaxFree
    /\ ncalls' = ncalls + 1
    /\ LoadSession(k, o)

NextLRU ==
    \/ FillCall
    \/ \E k \in LruKeys, o \in Outcomes : FreeCall(k, o)

SpecLRU == InitLRU /\ [][NextLRU]_vars

\* the cached key whose last use is the longest ago
Oldest == CHOOSE k \in CacheKeys(cache) : \A j \in CacheKeys(cache) : used[k] <= used[j]

\* C5: bounded LRU eviction. The cache never holds more than 32 entries, and a
\* successful load of a new key into a full cache drops exactly the entry whose
\* last use (store or hit) is the longest ago, and returns the new Session.
C5_BoundedLRU ==
    /\ [](Len(cache) <= 32)
    /\ [][nextId' # nextId /\ Len(cache) = 32 =>
            /\ CacheKeys(cache') = (CacheKeys(cache) \ {Oldest}) \cup {last'.key}
            /\ Oldest # last'.key
            /\ Len(cache') = 32
            /\ ~last'.raised
            /\ last'.ret = CacheGet(cache', last'.key)
            /\ last'.ret.key = last'.key]_vars

\* a hit on the oldest entry of the full cache saved it from the next eviction
C5_Witness ==
    /\ Len(cache) = 32
    /\ LruKey(1) \in CacheKeys(cache)
    /\ LruKey(2) \notin CacheKeys(cache)
    /\ LruKey(33) \in CacheKeys(cache)

-----------------------------------------------------------------------------
(* stint_chart: the tyre-stint ranges of a race *)

\* a cell of a frame that can be missing holds <<>> (NaN, NaT, None) or <<value>>
Absent == <<>>

Some(x) == <<x>>

Drivers == {"VER", "HAM"}

LapNumbers == 1 .. 3

Stints == {Absent, Some(1), Some(2)}

Compounds == {Absent, Some("SOFT"), Some("MEDIUM")}

InitStintChart == InitCache(SessionKeys) /\ InitPool /\ InitSeq(SessionKeys) /\ InitAggregators

\* the provider's data: one more lap of the race, a driver's lap numbers distinct
AddLap(d, n, st, c) ==
    /\ stintPc = "input"
    /\ Cardinality(laps) < MaxLaps
    /\ \A l \in laps : ~(l.Driver = d /\ l.LapNumber = n)
    /\ laps' = laps \cup {[Driver |-> d, LapNumber |-> n, Stint |-> st, Compound |-> c]}
    /\ UNCHANGED <<stint_ranges, stintPc, restOfStint>>

\* a dropna that looks at the stint alone
DropNaStintOnly(rows) == {l \in rows : l.Stint # Absent}

\* laps[cols].dropna(subset=["Stint", "Compound"])
DropNa(rows) == {l \in rows : l.Stint # Absent /\ l.Compound # Absent}

\* the groups of groupby(["Driver", "Stint", "Compound"])
GroupKeys(rows) == {<<l.Driver, l.Stint, l.Compound>> : l \in rows}

Group(rows, g) == {l \in rows : <<l.Driver, l.Stint, l.Compound>> = g}

SetMin(S) == CHOOSE x \in S : \A y \in S : x <= y

SetMax(S) == CHOOSE x \in S : \A y \in S : x >= y

\* ["LapNumber"].agg(StartLap="min", EndLap="max").reset_index(); EndLap += 1
StintRanges(rows) ==
    {[Driver |-> g[1], Stint |-> g[2], Compound |-> g[3],
      StartLap |-> SetMin({l.LapNumber : l \in Group(rows, g)}),
      EndLap |-> SetMax({l.LapNumber : l \in Group(rows, g)}) + 1] : g \in GroupKeys(rows)}

\* stint_chart(year, grand_prix): load the race, then build the range table; an
\* empty frame gives the empty timeline
StintChart(o) ==
    /\ stintPc = "input"
    /\ IF o = "ok"
       THEN /\ stint_ranges' = StintRanges(DropNa(laps))
            /\ stintPc' = "done"
       ELSE /\ stintPc' = "raised"
            /\ UNCHANGED stint_ranges
    /\ UNCHANGED <<laps, restOfStint>>

NextStintChart ==
    \/ \E d \in Drivers, n \in LapNumbers, st \in Stints, c \in Compounds :
          AddLap(d, n, st, c)
    \/ \E o \in Outcomes : StintChart(o)

SpecStintChart == InitStintChart /\ [][NextStintChart]_vars

\* the laps that carry both a stint and a compound
Complete == {l \in laps : l.Stint # Absent /\ l.Compound # Absent}

RowOf(l) == {r \in stint_ranges :
                r.Driver = l.Driver /\ r.Stint = l.Stint /\ r.Compound = l.Compound}

\* C6: stint ranges. The table has exactly one row per (driver, stint, compound)
\* occurring among the laps that have both stint and compound, no row for a lap
\* missing either, and each row runs from its group's lowest lap number to its
\* highest plus one; one (driver, stint) with two compounds gives two rows.
C6_StintRanges ==
    stintPc = "done" =>
        /\ \A l \in Complete :
              /\ Cardinality(RowOf(l)) = 1
              /\ \A r \in RowOf(l) : r.StartLap <= l.LapNumber /\ l.LapNumber + 1 <= r.EndLap
        /\ \A r \in stint_ranges :
              /\ r.Stint # Absent /\ r.Compound # Absent
              /\ \E l \in Complete : RowOf(l) = {r} /\ l.LapNumber = r.StartLap
              /\ \E l \in Complete : RowOf(l) = {r} /\ l.LapNumber + 1 = r.EndLap
        /\ \A l, m \in Complete :
              l.Driver = m.Driver /\ l.Stint = m.Stint /\ l.Compound # m.Compound
                  => RowOf(l) # RowOf(m)

\* one driver's stint 1 on two compounds, and a lap of it that has no compound
C6_Witness ==
    /\ stintPc = "done"
    /\ Cardinality(stint_ranges) = 2
    /\ \E r, q \in stint_ranges :
          r.Driver = q.Driver /\ r.Stint = q.Stint /\ r.Compound # q.Compound
    /\ \E l \in laps : l.Stint # Absent /\ l.Compound = Absent

-----------------------------------------------------------------------------
(* team_points_chart: the season's points per team *)

Teams == {"Red", "Blue"}

\* a row of session.results: the team and the points of one driver
ResultRows == [TeamName : Teams, Points : {10, 15}]

\* session.results of a loaded race: None, or a frame of at most two rows
ResultFrames == {Absent} \cup {Some(rows) : rows \in UNION {[1 .. n -> ResultRows] : n \in 0 .. 2}}

InitTeamPoints == InitCache(SessionKeys) /\ InitPool /\ InitSeq(SessionKeys) /\ InitAggregators

\* the provider's data: what loading the next event of the schedule gives
AddEvent(o, res) ==
    /\ pointsPc = "input"
    /\ Len(season) < MaxEvents
    /\ o # "ok" => res = Absent
    /\ season' = Append(season, [load |-> o, results |-> res])
    /\ UNCHANGED <<team_points, pointsPc, restOfPoints>>

RECURSIVE SumPoints(_, _)
\* the points of one team in a frame: groupby("TeamName")["Points"].sum()
SumPoints(rows, team) ==
    IF rows = <<>> THEN 0
    ELSE (IF Head(rows).TeamName = team THEN Head(rows).Points ELSE 0)
         + SumPoints(Tail(rows), team)

Grouped(rows) == [team \in {rows[i].TeamName : i \in DOMAIN rows} |-> SumPoints(rows, team)]

\* for team, pts in grouped.items(): team_points[team] = team_points.get(team, 0.0) + float(pts)
Merge(tp, grouped) ==
    [team \in DOMAIN tp \cup DOMAIN grouped |->
        IF team \in DOMAIN grouped
        THEN (IF team \in DOMAIN tp THEN tp[team] ELSE 0) + grouped[team]
        ELSE tp[team]]

RECURSIVE Totals(_, _)
\* for session in sessions: skip one whose results are None, add the others' points
Totals(tp, ss) ==
    IF ss = <<>> THEN tp
    ELSE IF Head(ss).results = Absent
         THEN Totals(tp, Tail(ss))
         ELSE Totals(Merge(tp, Grouped(Head(ss).results[1])), Tail(ss))

EmptyDict == [team \in {} |-> 0]

\* team_points_chart(year): the schedule, the pooled loads of its events, the
\* totals. A schedule error gives the empty chart; an event whose load raises
\* makes list(pool.map(...)) raise
TeamPointsChart(sched) ==
    /\ pointsPc = "input"
    /\ IF sched = "error"
       THEN /\ pointsPc' = "no_schedule"
            /\ UNCHANGED team_points
       ELSE IF \E i \in DOMAIN season : season[i].load # "ok"
            THEN /\ pointsPc' = "raised"
                 /\ UNCHANGED team_points
            ELSE /\ team_points' = Totals(EmptyDict, season)
                 /\ pointsPc' = IF DOMAIN Totals(EmptyDict, season) = {}
                                 THEN "empty" ELSE "done"
    /\ UNCHANGED <<season, restOfPoints>>

NextTeamPoints ==
    \/ \E o \in Outcomes, res \in ResultFrames : AddEvent(o, res)
    \/ \E sched \in {"ok", "error"} : TeamPointsChart(sched)

SpecTeamPoints == InitTeamPoints /\ [][NextTeamPoints]_vars

RECURSIVE SeasonPoints(_, _)
\* the points of a team over the events that loaded and have results
SeasonPoints(team, i) ==
    IF i = 0 THEN 0
    ELSE SeasonPoints(team, i - 1)
         + (IF season[i].load = "ok" /\ season[i].results # Absent
            THEN SumPoints(season[i].results[1], team) ELSE 0)

\* C7: team points. Events whose fetch gave None and sessions without results
\* are skipped without error, and each team's total is the sum of its points
\* over all the other sessions.
C7_TeamPointsAggregated ==
    pointsPc \in {"done", "empty", "raised"} =>
        /\ pointsPc # "raised"
        /\ \A team \in Teams :
              SeasonPoints(team, Len(season)) =
                  (IF team \in DOMAIN team_points THEN team_points[team] ELSE 0)

-----------------------------------------------------------------------------
(* lap_time_chart: a driver's lap times over the selected races *)

\* the lap times the provider gives, in milliseconds; NaT for a lap without a time
LapTimes == {Absent, Some(90500)}

LapRows == [Driver : Drivers, LapNumber : 1 .. 2, LapTime : LapTimes]

\* session.laps of a loaded race: at most two laps, a driver's lap numbers distinct
LapFrames ==
    {f \in UNION {[1 .. n -> LapRows] : n \in 0 .. 2} :
        \A i, j \in DOMAIN f :
            i # j => ~(f[i].Driver = f[j].Driver /\ f[i].LapNumber = f[j].LapNumber)}

InitLapTimeChart == InitCache(SessionKeys) /\ InitPool /\ InitSeq(SessionKeys) /\ InitAggregators

\* the provider's data: what loading the next selected race gives
AddRace(o, f) ==
    /\ chartPc = "input"
    /\ Len(raceLaps) < MaxRaces
    /\ o # "ok" => f = <<>>
    /\ raceLaps' = Append(raceLaps, [load |-> o, laps |-> f])
    /\ UNCHANGED <<driver, df, chartPc, restOfLaps>>

\* .dt.total_seconds(): whole seconds and the milliseconds after them; NaT gives NaN
TotalSeconds(t) == IF t = Absent THEN Absent ELSE Some(<<t[1] \div 1000, t[1] % 1000>>)

\* session.laps.pick_driver(driver)[["LapNumber", "LapTime"]]
PickDriver(f, d) == SelectSeq(f, LAMBDA l : l.Driver = d)

\* the frame of one race: LapTimeSeconds and Race are added to every row
RaceFrame(f, d, gp) ==
    [i \in DOMAIN PickDriver(f, d) |->
        [LapNumber |-> PickDriver(f, d)[i].LapNumber,
         LapTime |-> PickDriver(f, d)[i].LapTime,
         LapTimeSeconds |-> TotalSeconds(PickDriver(f, d)[i].LapTime),
         Race |-> gp]]

RECURSIVE Concat(_, _, _)
\* pd.concat(all_laps, ignore_index=True) of the frames of races i, i + 1, ...
Concat(rl, d, i) ==
    IF i > Len(rl) THEN <<>> ELSE RaceFrame(rl[i].laps, d, i) \o Concat(rl, d, i + 1)

\* lap_time_chart(year, driver, races): the pooled loads, then the frame; a load
\* that raises makes list(pool.map(...)) raise; no race gives the empty chart
LapTimeChart(d) ==
    /\ chartPc = "input"
    /\ driver' = d
    /\ IF \E i \in DOMAIN raceLaps : raceLaps[i].load # "ok"
       THEN /\ chartPc' = "raised"
            /\ UNCHANGED df
       ELSE /\ df' = Concat(raceLaps, d, 1)
            /\ chartPc' = IF raceLaps = <<>> THEN "empty" ELSE "done"
    /\ UNCHANGED <<raceLaps, restOfLaps>>

NextLapTimeChart ==
    \/ \E o \in Outcomes, f \in LapFrames : AddRace(o, f)
    \/ \E d \in Drivers : LapTimeChart(d)

SpecLapTimeChart == InitLapTimeChart /\ [][NextLapTimeChart]_vars

\* the driver's laps of race gp that have a lap time
Timed(gp) ==
    {i \in DOMAIN raceLaps[gp].laps :
        raceLaps[gp].laps[i].Driver = driver /\ raceLaps[gp].laps[i].LapTime # Absent}

\* C8: laps without a lap time are dropped. The series of lap_time_chart has one
\* point per lap of the driver that has a lap time and none for a lap that has not.
C8_UntimedLapsDropped ==
    chartPc = "done" =>
        /\ \A i \in DOMAIN df : df[i].LapTime # Absent /\ df[i].LapTimeSeconds # Absent
        /\ \A gp \in DOMAIN raceLaps :
              Cardinality({i \in DOMAIN df : df[i].Race = gp}) = Cardinality(Timed(gp))

-----------------------------------------------------------------------------
(* driver_metadata: the driver's profile from three sources and a fallback table *)

\* a date string, character by character
Dob19970930 == <<"1", "9", "9", "7", "-", "0", "9", "-", "3", "0">>

Dob19850107 == <<"1", "9", "8", "5", "-", "0", "1", "-", "0", "7">>

Dob19810729 == <<"1", "9", "8", "1", "-", "0", "7", "-", "2", "9">>

Dob19971016 == <<"1", "9", "9", "7", "-", "1", "0", "-", "1", "6">>

DobMalformed == <<"3", "0", "/", "0", "9", "/", "1", "9", "9", "7">>

\* _FALLBACK_DRIVERS
FallbackDrivers ==
    [VER |-> [name |-> "Max Verstappen", image |-> "Max_Verstappen_2017_Malaysia_2.jpg",
              dob |-> Dob19970930, nationality |-> "Dutch", team |-> "Red Bull Racing"],
     HAM |-> [name |-> "Lewis Hamilton", image |-> "Lewis_Hamilton_2016_Malaysia_podium_1.jpg",
              dob |-> Dob19850107, nationality |-> "British", team |-> "Mercedes"],
     ALO |-> [name |-> "Fernando Alonso", image |-> "Fernando_Alonso_2016_Malaysia_podium_1.jpg",
              dob |-> Dob19810729, nationality |-> "Spanish", team |-> "Aston Martin"],
     LEC |-> [name |-> "Charles Leclerc", image |-> "F1_2019_Monaco_GP_Sunday_QP.jpg",
              dob |-> Dob19971016, nationality |-> "Monegasque", team |-> "Ferrari"]]

\* the driver arguments of the model, and driver.upper() of each
DriverArgs == {"VER", "ver", "LEC", "XYZ"}

Upper(d) == IF d = "ver" THEN "VER" ELSE d

Digits == <<"0", "1", "2", "3", "4", "5", "6", "7", "8", "9">>

IsDigit(c) == \E i \in DOMAIN Digits : Digits[i] = c

DigitOf(c) == (CHOOSE i \in DOMAIN Digits : Digits[i] = c) - 1

IsLeap(y) == (y % 4 = 0 /\ y % 100 # 0) \/ y % 400 = 0

DaysIn(y, m) ==
    IF m = 2 THEN (IF IsLeap(y) THEN 29 ELSE 28)
    ELSE IF m \in {4, 6, 9, 11} THEN 30 ELSE 31

\* datetime.datetime.strptime(s, "%Y-%m-%d").date() of a zero-padded string: the
\* date as <<year, month, day>>, or Absent where strptime raises ValueError
Strptime(s) ==
    IF /\ Len(s) = 10
       /\ s[5] = "-" /\ s[8] = "-"
       /\ \A i \in {1, 2, 3, 4, 6, 7, 9, 10} : IsDigit(s[i])
    THEN LET y == DigitOf(s[1]) * 1000 + DigitOf(s[2]) * 100 + DigitOf(s[3]) * 10 + DigitOf(s[4])
             m == DigitOf(s[6]) * 10 + DigitOf(s[7])
             d == DigitOf(s[9]) * 10 + DigitOf(s[10])
         IN  IF y >= 1 /\ m \in 1 .. 12 /\ d >= 1 /\ d <= DaysIn(y, m)
             THEN Some(<<y, m, d>>) ELSE Absent
    ELSE Absent

\* the day number of a date of the proleptic Gregorian calendar
Ordinal(date) ==
    LET y == IF date[2] <= 2 THEN date[1] - 1 ELSE date[1]
        mp == (date[2] + 9) % 12
        doy == (153 * mp + 2) \div 5 + date[3] - 1
    IN  y * 365 + y \div 4 - y \div 100 + y \div 400 + doy

\* (datetime.date(year, 12, 31) - dob).days // 365
Age(year, dob) == (Ordinal(<<year, 12, 31>>) - Ordinal(dob)) \div 365

\* truthiness of a name: None and the empty string are false
Truthy(v) == v # Absent /\ v # Some("")

\* what the primary provider answers: the schedule or the load raises; the
\* schedule is empty; the session has no results; the results have no row for
\* the driver; or the driver's row
PrimaryAnswers ==
    {[kind |-> k, FullName |-> Absent, Driver |-> Absent, TeamName |-> Absent] :
        k \in {"error", "empty", "no_results", "no_row"}}
    \cup [kind : {"row"}, FullName : {Absent, Some("Max Verstappen")},
            Driver : {Absent, Some("VER")}, TeamName : {Absent, Some("Red Bull")}]

\* what the metadata service answers: the request raises or times out; the status
\* is an error; the JSON has no driver; or the driver's record
ErgastAnswers ==
    {[kind |-> k, nationality |-> Absent, dateOfBirth |-> Absent, fullName |-> ""] :
        k \in {"error", "not_ok", "no_driver"}}
    \cup [kind : {"ok"}, nationality : {Absent, Some("Dutch")},
            dateOfBirth : {Absent, Some(Dob19970930), Some(DobMalformed)},
            fullName : {"", "Max Emilian Verstappen"}]

\* what the image service answers: the request raises or times out; the status is
\* an error; or a summary with or without a thumbnail
WikiAnswers ==
    {[kind |-> k, source |-> Absent] : k \in {"error", "not_ok"}}
    \cup [kind : {"ok"}, source : {Absent, Some("thumb.jpg")}]

\* lines 188-200: name and team from the driver's row of the first race's results;
\* any exception is passed over
FromPrimary(p) ==
    IF p.kind = "row"
    THEN [name |-> IF Truthy(p.FullName) THEN p.FullName ELSE p.Driver, team |-> p.TeamName]
    ELSE [name |-> Absent, team |-> Absent]

\* lines 206-223: nationality, date of birth and, if there is none yet, the name
\* from the metadata service. A date that does not parse raises after the
\* nationality is set and before the name is; the exception is passed over
FromErgast(e, name) ==
    IF e.kind # "ok"
    THEN [nationality |-> Absent, dob |-> Absent, name |-> name]
    ELSE IF e.dateOfBirth # Absent /\ Strptime(e.dateOfBirth[1]) = Absent
         THEN [nationality |-> e.nationality, dob |-> Absent, name |-> name]
         ELSE [nationality |-> e.nationality,
               dob |-> IF e.dateOfBirth = Absent THEN Absent ELSE Strptime(e.dateOfBirth[1]),
               name |-> IF name = Absent THEN Some(e.fullName) ELSE name]

\* an image lookup whose request is not inside a try
FromWikiUnguarded(w, name) ==
    IF ~Truthy(name) THEN [image |-> Absent, raised |-> FALSE]
    ELSE IF w.kind = "ok" THEN [image |-> w.source, raised |-> FALSE]
         ELSE [image |-> Absent, raised |-> w.kind = "error"]

\* lines 225-236: the image, looked up only for a name; any exception is passed over
FromWiki(w, name) ==
    IF ~Truthy(name) THEN [image |-> Absent, raised |-> FALSE]
    ELSE IF w.kind = "ok" THEN [image |-> w.source, raised |-> FALSE]
         ELSE [image |-> Absent, raised |-> FALSE]

\* lines 243-256: the fallback table fills the fields that are still None
WithFallback(year, d, r) ==
    IF Upper(d) \notin DOMAIN FallbackDrivers THEN r
    ELSE LET fb == FallbackDrivers[Upper(d)]
         IN  [name |-> IF r.name = Absent THEN Some(fb.name) ELSE r.name,
              image |-> IF r.image = Absent THEN Some(fb.image) ELSE r.image,
              age |-> IF r.age = Absent THEN Some(Age(year, Strptime(fb.dob)[1])) ELSE r.age,
              nationality |-> IF r.nationality = Absent THEN Some(fb.nationality)
                              ELSE r.nationality,
              team |-> IF r.team = Absent THEN Some(fb.team) ELSE r.team]

\* the dictionary driver_metadata builds from the answers of its sources
Resolve(year, d, p, e, w) ==
    LET one == FromPrimary(p)
        two == FromErgast(e, one.name)
        three == FromWiki(w, two.name)
    IN  [raised |-> three.raised,
         value |-> WithFallback(year, d,
                      [name |-> two.name,
                       image |-> three.image,
                       age |-> IF two.dob # Absent THEN Some(Age(year, two.dob[1])) ELSE Absent,
                       nationality |-> two.nationality,
                       team |-> one.team])]

InitDriverMetadata == InitCache(SessionKeys) /\ InitPool /\ InitSeq(SessionKeys) /\ InitAggregators

\* driver_metadata(year, driver)
DriverMetadata(year, d, p, e, w) ==
    /\ metaPc = "idle"
    /\ metaIn' = [year |-> year, driver |-> d, primary |-> p, ergast |-> e, wiki |-> w]
    /\ IF Resolve(year, d, p, e, w).raised
       THEN /\ metaPc' = "raised"
            /\ UNCHANGED profile
       ELSE /\ metaPc' = "done"
            /\ profile' = Resolve(year, d, p, e, w).value
    /\ UNCHANGED restOfMeta

NextDriverMetadata ==
    \E year \in Years, d \in DriverArgs, p \in PrimaryAnswers, e \in ErgastAnswers,
       w \in WikiAnswers : DriverMetadata(year, d, p, e, w)

SpecDriverMetadata == InitDriverMetadata /\ [][NextDriverMetadata]_vars

\* the source gave nothing: it raised, timed out or answered with an error
PrimaryFailed == metaIn.primary.kind = "error"

ErgastFailed == metaIn.ergast.kind \in {"error", "not_ok"}

WikiFailed == metaIn.wiki.kind \in {"error", "not_ok"}

\* C9: driver metadata resolution never fails. Whatever subset of the primary
\* provider, the metadata service and the image service fails, driver_metadata
\* raises nothing and returns the five keys name, image, age, nationality, team;
\* when all fail and the driver is not in the static table, all five are None.
C9_NeverFails ==
    metaPc # "idle" =>
        /\ metaPc = "done"
        /\ DOMAIN profile = {"name", "image", "age", "nationality", "team"}
        /\ (PrimaryFailed /\ ErgastFailed /\ WikiFailed
              /\ metaIn.driver \notin {"VER", "ver", "HAM", "ALO", "LEC"})
             => \A f \in DOMAIN profile : profile[f] = Absent

\* the image service failed after the other two sources had answered
C9_Witness ==
    /\ metaPc = "done"
    /\ metaIn.primary.kind = "row"
    /\ metaIn.ergast.kind = "ok"
    /\ metaIn.wiki.kind = "error"
    /\ profile.name # Absent
    /\ profile.image = Absent

\* the first value of a sequence of nullable values that is not None
FirstResolved(vs) ==
    IF \E i \in DOMAIN vs : vs[i] # Absent
    THEN vs[CHOOSE i \in DOMAIN vs : vs[i] # Absent /\ \A j \in 1 .. i - 1 : vs[j] = Absent]
    ELSE Absent

\* what each source of the call has for a field: the primary provider's row, the
\* metadata service's record, the image service's thumbnail for the name the two
\* sources before it gave, and the static table's entry for the driver
PrimaryHas(f) ==
    IF metaIn.primary.kind # "row" THEN Absent
    ELSE IF f = "team" THEN metaIn.primary.TeamName
    ELSE IF Truthy(metaIn.primary.FullName) THEN metaIn.primary.FullName
    ELSE metaIn.primary.Driver

ErgastHas(f) ==
    IF metaIn.ergast.kind # "ok" THEN Absent
    ELSE IF f = "nationality" THEN metaIn.ergast.nationality
    ELSE IF f = "dob" THEN metaIn.ergast.dateOfBirth
    ELSE IF metaIn.ergast.fullName = "" THEN Absent
    ELSE Some(metaIn.ergast.fullName)

WikiHas ==
    IF metaIn.wiki.kind = "ok" /\ FirstResolved(<<PrimaryHas("name"), ErgastHas("name")>>) # Absent
    THEN metaIn.wiki.source
    ELSE Absent

StaticHas(f) ==
    IF Upper(metaIn.driver) \in DOMAIN FallbackDrivers
    THEN Some(FallbackDrivers[Upper(metaIn.driver)][f])
    ELSE Absent

\* the age at the end of the call's year of a date of birth, if there is one
AgeOf(dob) == IF dob = Absent THEN Absent ELSE Some(Age(metaIn.year, Strptime(dob[1])[1]))

\* the metadata service's record, if any, has a date of birth that parses
ErgastWellFormed ==
    ErgastHas("dob") = Absent \/ Strptime(ErgastHas("dob")[1]) # Absent

\* C11: fallback-chain merge order. Each field of the profile driver_metadata
\* returns is the value of the first of primary provider, metadata service, image
\* lookup and static table that has one; a later source never overwrites an
\* earlier one, the static table fills every field no earlier source has, and age
\* is None only if neither the metadata service nor the static table has a date
\* of birth.
C11_FirstSourceWins ==
    metaPc = "done" /\ ErgastWellFormed =>
        /\ profile.name = FirstResolved(<<PrimaryHas("name"), ErgastHas("name"), StaticHas("name")>>)
        /\ profile.team = FirstResolved(<<PrimaryHas("team"), StaticHas("team")>>)
        /\ profile.nationality =
              FirstResolved(<<ErgastHas("nationality"), StaticHas("nationality")>>)
        /\ profile.age = AgeOf(FirstResolved(<<ErgastHas("dob"), StaticHas("dob")>>))
        /\ profile.image = FirstResolved(<<WikiHas, StaticHas("image")>>)

-----------------------------------------------------------------------------
(* compare_fastest_lap_telemetry: two drivers' fastest laps overlaid *)

\* Laps.pick_fastest() of a driver without laps, by the release of the provider
\* library that is installed: it raises (idxmin of an empty frame), it returns a
\* Lap whose cells are all NaN, or it returns None
EmptyPicks == {"raises", "nan_lap", "none"}

\* the lap times of the session, in milliseconds
TimedLaps == [Driver : Drivers, LapNumber : 1 .. 2, LapTime : {Some(90500), Some(91250)}]

TeleFrames ==
    {f \in UNION {[1 .. n -> TimedLaps] : n \in 0 .. 2} :
        \A i, j \in DOMAIN f :
            i # j => ~(f[i].Driver = f[j].Driver /\ f[i].LapNumber = f[j].LapNumber)}

\* sess.laps.pick_driver(d).pick_fastest(): the driver's lap of least lap time
PickFastest(f, d, lib) ==
    LET mine == PickDriver(f, d)
    IN  IF mine = <<>>
        THEN [kind |-> lib, LapNumber |-> 0]
        ELSE [kind |-> "lap",
              LapNumber |-> mine[CHOOSE i \in DOMAIN mine :
                                    \A j \in DOMAIN mine :
                                        mine[i].LapTime[1] <= mine[j].LapTime[1]].LapNumber]

\* lap.empty: a pandas Series is empty only if it has no cells; None has no
\* attribute empty
EmptyOf(lap) == IF lap.kind = "none" THEN "AttributeError" ELSE "False"

\* lines 44-92 once the session is loaded: "raised", or the traces of the figures
Compare(f, d1, d2, lib) ==
    LET lap1 == PickFastest(f, d1, lib)
        lap2 == PickFastest(f, d2, lib)
    IN  IF "raises" \in {lap1.kind, lap2.kind} THEN "raised"
        ELSE IF EmptyOf(lap1) = "AttributeError" THEN "raised"
        ELSE IF EmptyOf(lap1) = "True" THEN "empty"
        ELSE IF EmptyOf(lap2) = "AttributeError" THEN "raised"
        ELSE IF EmptyOf(lap2) = "True" THEN "empty"
        ELSE IF "nan_lap" \in {lap1.kind, lap2.kind} THEN "raised"
        ELSE "traces"

\* a figure with a trace per driver, and go.Figure()
Figure(d1, d2) == <<d1, d2>>

EmptyFigure == <<>>

InitTelemetry == InitCache(SessionKeys) /\ InitPool /\ InitSeq(SessionKeys) /\ InitAggregators

\* compare_fastest_lap_telemetry(year, grand_prix, session, driver1, driver2)
CompareFastestLapTelemetry(o, f, d1, d2, lib) ==
    /\ telePc = "idle"
    /\ teleIn' = [load |-> o, laps |-> f, driver1 |-> d1, driver2 |-> d2, lib |-> lib]
    /\ IF o # "ok" \/ Compare(f, d1, d2, lib) = "raised"
       THEN /\ telePc' = "raised"
            /\ UNCHANGED figs
       ELSE /\ telePc' = "done"
            /\ figs' = IF Compare(f, d1, d2, lib) = "empty"
                        THEN <<EmptyFigure, EmptyFigure, EmptyFigure>>
                        ELSE <<Figure(d1, d2), Figure(d1, d2), Figure(d1, d2)>>
    /\ UNCHANGED restOfTele

NextTelemetry ==
    \E o \in Outcomes, f \in TeleFrames, d1 \in Drivers, d2 \in Drivers, lib \in EmptyPicks :
        CompareFastestLapTelemetry(o, f, d1, d2, lib)

SpecTelemetry == InitTelemetry /\ [][NextTelemetry]_vars

\* the driver has no lap in the session of the call
Lapless(d) == \A i \in DOMAIN teleIn.laps : teleIn.laps[i].Driver # d

\* C10: telemetry comparison with a lapless driver. If either driver has no laps
\* in the loaded session, the call raises nothing and returns three figures
\* without a series for either driver.
C10_LaplessGivesEmptyFigures ==
    (telePc # "idle" /\ teleIn.load = "ok" /\ (Lapless(teleIn.driver1) \/ Lapless(teleIn.driver2)))
        => telePc = "done" /\ figs = <<EmptyFigure, EmptyFigure, EmptyFigure>>

-----------------------------------------------------------------------------
(* The memoized entry points that pass over failures: load_first_session,     *)
(* team_points_chart and driver_metadata, called one call after the other     *)
(* while the provider and the services go down and come back                  *)

\* px.bar(...) of the totals; px.bar() is the chart of no totals
Bar(tp) == [kind |-> "bar", data |-> tp]

\* the seasons team_points_chart meets: per event of the schedule, what its load
\* gives. load_session's own cache is left out of this specification: every
\* load of an event counts as a request
MemoSeasons ==
    {<<>>,
     <<[load |-> "ok", results |-> Some(<<[TeamName |-> "Red", Points |-> 10]>>)]>>,
     <<[load |-> "FastF1Error", results |-> Absent]>>}

\* the body of team_points_chart: a schedule error is caught and px.bar()
\* returned; a load that raises makes the call raise; else the chart of the totals
TeamPointsResult(sched, sn) ==
    IF sched = "error"
    THEN [raised |-> FALSE, failed |-> TRUE, value |-> Bar(EmptyDict), requests |-> 1]
    ELSE IF \E i \in DOMAIN sn : sn[i].load # "ok"
         THEN [raised |-> TRUE, failed |-> TRUE, value |-> Bar(EmptyDict),
               requests |-> 1 + Len(sn)]
         ELSE [raised |-> FALSE, failed |-> FALSE, value |-> Bar(Totals(EmptyDict, sn)),
               requests |-> 1 + Len(sn)]

\* the drivers and the answers driver_metadata meets here: each source either
\* fails or gives all it has
MemoDrivers == {"VER", "XYZ"}

MemoPrimary ==
    {p \in PrimaryAnswers :
        p.kind = "error" \/ (p.kind = "row" /\ p.FullName # Absent /\ p.TeamName # Absent)}

MemoErgast ==
    {e \in ErgastAnswers :
        e.kind = "error"
        \/ (e.kind = "ok" /\ e.nationality # Absent /\ e.dateOfBirth = Some(Dob19970930)
              /\ e.fullName # "")}

MemoWiki == {w \in WikiAnswers : w.kind = "error" \/ (w.kind = "ok" /\ w.source # Absent)}

\* the image lookup is made: there is a name after the first two sources
WikiAsked(p, e) == Truthy(FromErgast(e, FromPrimary(p).name).name)

\* a source of driver_metadata failed and was passed over
SourceFailed(p, e, w) ==
    \/ p.kind = "error"
    \/ e.kind \in {"error", "not_ok"}
    \/ WikiAsked(p, e) /\ w.kind \in {"error", "not_ok"}

\* the requests driver_metadata makes: the schedule, the first race's load if the
\* schedule came, the metadata service, and the image service if there is a name
MetaRequests(p, e) ==
    1 + (IF p.kind \in {"error", "empty"} THEN 0 ELSE 1) + 1 + (IF WikiAsked(p, e) THEN 1 ELSE 0)

InitMemoized == InitCache(LoaderKeys) /\ InitPool /\ InitSeq(LoaderKeys) /\ InitAggregators

\* load_first_session(year, session); the schedule request raises while the
\* provider cannot be reached, and only then
MemoLoadFirstSession(y, s, sched, o) ==
    /\ ncalls < MaxMemoCalls
    /\ ncalls' = ncalls + 1
    /\ sched = "error" <=> "provider" \notin up
    /\ LoadFirstSession(y, s, sched, o)

\* team_points_chart(year) under lru_cache: a hit returns the stored chart; a
\* miss runs the body and stores what it returns
MemoTeamPointsChart(year, sched, sn) ==
    /\ ncalls < MaxMemoCalls
    /\ ncalls' = ncalls + 1
    /\ sched = "error" <=> "provider" \notin up
    /\ IF <<year>> \in CacheKeys(pointsCache)
       THEN /\ pointsCache' = CacheTouch(pointsCache, <<year>>)
            /\ last' = [fn |-> "team_points_chart", key |-> <<year>>, hit |-> TRUE,
                         failed |-> FALSE, raised |-> FALSE,
                         ret |-> CacheGet(pointsCache, <<year>>)]
            /\ UNCHANGED contacts
       ELSE LET r == TeamPointsResult(sched, sn)
            IN  /\ contacts' = contacts + r.requests
                /\ last' = [fn |-> "team_points_chart", key |-> <<year>>, hit |-> FALSE,
                             failed |-> r.failed, raised |-> r.raised, ret |-> r.value]
                /\ pointsCache' = IF r.raised THEN pointsCache
                                   ELSE CacheStore(pointsCache, <<year>>, r.value)
    /\ UNCHANGED <<metaCache, up, firstCache, getCache, used, clock, cacheVars, poolVars,
                   stintVars, pointsVars, lapVars, metaVars, teleVars>>

\* driver_metadata(year, driver) under lru_cache: a hit returns the stored
\* dictionary; a miss asks the sources and stores the dictionary it builds
MemoDriverMetadata(year, d, p, e, w) ==
    /\ ncalls < MaxMemoCalls
    /\ ncalls' = ncalls + 1
    /\ "provider" \notin up => p.kind = "error"
    /\ e.kind = "error" <=> "ergast" \notin up
    /\ w.kind = "error" <=> "wiki" \notin up
    /\ IF <<year, d>> \in CacheKeys(metaCache)
       THEN /\ metaCache' = CacheTouch(metaCache, <<year, d>>)
            /\ last' = [fn |-> "driver_metadata", key |-> <<year, d>>, hit |-> TRUE,
                         failed |-> FALSE, raised |-> FALSE,
                         ret |-> CacheGet(metaCache, <<year, d>>)]
            /\ UNCHANGED contacts
       ELSE LET r == Resolve(year, d, p, e, w)
            IN  /\ contacts' = contacts + MetaRequests(p, e)
                /\ last' = [fn |-> "driver_metadata", key |-> <<year, d>>, hit |-> FALSE,
                             failed |-> SourceFailed(p, e, w), raised |-> r.raised,
                             ret |-> r.value]
                /\ metaCache' = IF r.raised THEN metaCache
                                 ELSE CacheStore(metaCache, <<year, d>>, r.value)
    /\ UNCHANGED <<pointsCache, up, firstCache, getCache, used, clock, cacheVars, poolVars,
                   stintVars, pointsVars, lapVars, metaVars, teleVars>>

\* the provider or a service goes down, and comes back
SourceFails(src) ==
    /\ src \in up
    /\ up' = up \ {src}
    /\ UNCHANGED <<pointsCache, metaCache, cacheVars, poolVars, seqVars, stintVars,
                   pointsVars, lapVars, metaVars, teleVars>>

SourceRecovers(src) ==
    /\ src \notin up
    /\ up' = up \cup {src}
    /\ UNCHANGED <<pointsCache, metaCache, cacheVars, poolVars, seqVars, stintVars,
                   pointsVars, lapVars, metaVars, teleVars>>

NextMemo ==
    \/ \E y \in Years, s \in SessionTypes, sched \in ScheduleOutcomes, o \in Outcomes :
          MemoLoadFirstSession(y, s, sched, o)
    \/ \E year \in Years, sched \in {"ok", "error"}, sn \in MemoSeasons :
          MemoTeamPointsChart(year, sched, sn)
    \/ \E year \in Years, d \in MemoDrivers, p \in MemoPrimary, e \in MemoErgast,
          w \in MemoWiki : MemoDriverMetadata(year, d, p, e, w)
    \/ \E src \in Sources : SourceFails(src)
    \/ \E src \in Sources : SourceRecovers(src)

SpecMemo == InitMemoized /\ [][NextMemo]_vars

\* the cache of a memoized entry point, before and after the step
MemoCache(f) ==
    IF f = "load_first_session" THEN firstCache
    ELSE IF f = "team_points_chart" THEN pointsCache ELSE metaCache

MemoCacheNext(f) ==
    IF f = "load_first_session" THEN firstCache'
    ELSE IF f = "team_points_chart" THEN pointsCache' ELSE metaCache'

\* C13: degraded results are memoized. When load_first_session, team_points_chart
\* or driver_metadata passes over a failure and returns its degraded value (None,
\* the empty chart, a partial or all-None profile), the value is stored under
\* the call's arguments; and every call whose arguments are in the cache returns
\* the stored value and makes no request, whether or not the provider and the
\* services can be reached by then.
C13_DegradedMemoized ==
    [][ncalls' # ncalls =>
          /\ (last'.failed /\ ~last'.raised) =>
                /\ last'.key \in CacheKeys(MemoCacheNext(last'.fn))
                /\ CacheGet(MemoCacheNext(last'.fn), last'.key) = last'.ret
          /\ last'.key \in CacheKeys(MemoCache(last'.fn)) =>
                /\ last'.hit
                /\ last'.ret = CacheGet(MemoCache(last'.fn), last'.key)
                /\ contacts' = contacts
                /\ nextId' = nextId]_vars

\* the provider is back, and load_first_session has answered from its cache with
\* the None it stored when the schedule could not be had
C13_Witness ==
    /\ up = Sources
    /\ ncalls = 2
    /\ last.fn = "load_first_session"
    /\ last.hit
    /\ last.ret = None
    /\ contacts = 1

=============================================================================
